---- MODULE Spec2Model ----
(***************************************************************************)
(* dns_query_caching: src/main.rs.                                         *)
(*                                                                         *)
(* HickoryDnsResolver wraps a hickory TokioAsyncResolver (cache, per       *)
(* attempt timeout, attempt budget) and is plugged into a reqwest Client   *)
(* with an overall request timeout; main issues five sequential GETs.      *)
(*                                                                         *)
(* Two specifications share the resolver:                                  *)
(*   Spec        the program: main, fetch_url and the client's connector   *)
(*               calling resolve for task "main";                          *)
(*   ResolveSpec the resolver alone, called directly and concurrently by   *)
(*               the tasks of Callers (the resolver's trait contract).     *)
(*                                                                         *)
(* The name server, the network and the HTTP server are the environment.   *)
(* Time is counted in seconds by timers that run while something waits.    *)
(***************************************************************************)
EXTENDS Integers, Sequences, FiniteSets, TLC

\* ---------------------------------------------------------------- constants

\* Faulty variant: a cache that holds nothing.
CacheSizeZero == 0
\* opts.cache_size = 1024
CacheSize == 1024
\* opts.timeout = Duration::from_secs(3)
LookupTimeout == 3
\* opts.attempts = 2
MaxAttempts == 2
\* .timeout(Duration::from_secs(10))
ClientTimeout == 10
\* for i in 1..=5
NumRequests == 5
\* tokio::time::sleep(Duration::from_millis(100))
DelayMs == 100

\* let url = "https://google.com"
UrlHost == "google.com"

\* ------------------------------------------------------------------- bounds

\* resolve calls the direct callers make in ResolveSpec, all together
MaxCalls == 2

Callers == {"c1", "c2"}
Tasks == {"main"} \cup Callers
Hosts == {UrlHost, "example.test"}
A1 == "10.0.0.1"
A2 == "10.0.0.2"

\* What the name server does with a query for a host.  "addrs" answers with
\* the address list (possibly empty), "nxdomain" and "neterr" fail every
\* query, "hang" never answers, and "flaky" fails or answers query by query.
Responses ==
    {[kind |-> "addrs", addrs |-> s] : s \in {<<>>, <<A1>>, <<A1, A2>>, <<A2, A1>>}}
    \cup {[kind |-> k, addrs |-> <<>>] : k \in {"nxdomain", "neterr", "hang"}}
    \cup {[kind |-> "flaky", addrs |-> <<A1>>]}

Deterministic(r) == r.kind # "flaky"

\* The name servers of a behaviour: any response for the program's host, and
\* the other host resolves or does not exist.
Backends ==
    {b \in [Hosts -> Responses] :
        \A h \in Hosts \ {UrlHost} :
            b[h] \in {[kind |-> "addrs", addrs |-> <<A1>>], [kind |-> "nxdomain", addrs |-> <<>>]}}

VARIABLES
    backend,    \* the name server: Hosts -> Responses, fixed for a behaviour
    cache,      \* the resolvers' caches: handle -> host -> entry
    call,       \* per task: the resolve call it is in
    ncalls,     \* per task: resolve calls made so far
    lookups,    \* per host: queries the name server has received
    done,       \* per host: the last result returned under the live record
    expired,    \* per host: the record's TTL has run out at some time
    log,        \* the log file: the records written so far
    run,        \* main: loop position, request timer, outcomes, exit
    pooled,     \* the client holds an idle connection to the host
    server      \* the status the HTTP server answers with, fixed for a behaviour

vars == <<backend, cache, call, ncalls, lookups, done, expired, log, run, pooled, server>>

\* ------------------------------------------------------------------- values

NoResult == [ok |-> FALSE, ips |-> <<>>, cause |-> "none"]
LookupOk(ips) == [ok |-> TRUE, ips |-> ips, cause |-> "none"]
LookupErr(c) == [ok |-> FALSE, ips |-> <<>>, cause |-> c]

NoErr == [kind |-> "none", msg |-> <<>>]
NoRet == [set |-> FALSE, ok |-> FALSE, addrs |-> <<>>, err |-> NoErr]

Absent == [state |-> "absent", ips |-> <<>>]
Populated(ips) == [state |-> "populated", ips |-> ips]

IdleCall ==
    [pc |-> "idle", host |-> UrlHost, attempt |-> 0, elapsed |-> 0, nlook |-> 0,
     lres |-> NoResult, ret |-> NoRet, prev |-> NoRet, stale |-> FALSE]

\* A log record: level, message, and the strings and numbers formatted into it.
Rec(level, msg, strs, nums) == [level |-> level, msg |-> msg, s |-> strs, n |-> nums]

\* --------------------------------------------------------- HickoryDnsResolver

\* Faulty variant: a resolver built anew for the task, with a cache of its own.
ResolverFresh(t) == t
\* let resolver = self.resolver.clone(): the clone shares the resolver's
\* cache, so every task works on the one handle.
ResolverClone(t) == "shared"

\* Faulty variant: only the first address is kept.
ToSocketAddrsFirst(ips) ==
    [k \in 1..(IF Len(ips) = 0 THEN 0 ELSE 1) |-> [ip |-> ips[k], port |-> 0]]
\* lookup.iter().map(|ip| SocketAddr::new(ip, 0)).collect()
ToSocketAddrs(ips) == [k \in 1..Len(ips) |-> [ip |-> ips[k], port |-> 0]]

\* Faulty variant: the cause is left out of the message.
ResolveErrorNoCause(cause) == [kind |-> "NotFound", msg |-> <<"DNS resolution failed", "">>]
\* Err(Box::new(io::Error::new(NotFound, format!("DNS resolution failed: {}", e))))
ResolveError(cause) == [kind |-> "NotFound", msg |-> <<"DNS resolution failed: ", cause>>]

\* Faulty variant: an empty lookup is turned into an error.
ResolveResultNonEmpty(lres) ==
    IF lres.ok /\ lres.ips # <<>>
    THEN [set |-> TRUE, ok |-> TRUE, addrs |-> ToSocketAddrs(lres.ips), err |-> NoErr]
    ELSE [set |-> TRUE, ok |-> FALSE, addrs |-> <<>>, err |-> ResolveError(lres.cause)]
\* The match on the lookup's result: what resolve returns.
ResolveResult(lres) ==
    IF lres.ok
    THEN [set |-> TRUE, ok |-> TRUE, addrs |-> ToSocketAddrs(lres.ips), err |-> NoErr]
    ELSE [set |-> TRUE, ok |-> FALSE, addrs |-> <<>>, err |-> ResolveError(lres.cause)]

\* The records resolve writes once the lookup has ended.
ResolveLog(h, lres) ==
    IF lres.ok
    THEN <<Rec("INFO", "DNS resolution took", <<h>>, <<>>),
           Rec("DEBUG", "Resolved addresses", <<h>>, <<Len(lres.ips)>>)>>
    ELSE <<Rec("INFO", "Failed to resolve", <<h, lres.cause>>, <<>>)>>

\* Faulty variant: a torn insert, which stores the first address only.
CacheInsertPartial(c, hd, h, ips) ==
    [c EXCEPT ![hd][h] = Populated(IF ips = <<>> THEN ips ELSE <<ips[1]>>)]

\* The cache after a positive answer for h has been stored in handle hd: a
\* cache of opts.cache_size entries, one of which makes room when it is full.
CacheInsert(c, hd, h, ips) ==
    LET held == {x \in Hosts : c[hd][x].state # "absent"}
    IN IF CacheSize = 0
       THEN c
       ELSE IF h \in held \/ Cardinality(held) < CacheSize
            THEN [c EXCEPT ![hd][h] = Populated(ips)]
            ELSE LET v == CHOOSE x \in held : TRUE
                 IN [c EXCEPT ![hd][v] = Absent, ![hd][h] = Populated(ips)]

\* resolve(&self, name): clone the handle, copy the name, log, start the lookup.
ResolveBegin(t, h) ==
    /\ call' = [call EXCEPT ![t] =
                  [IdleCall EXCEPT !.pc = "called", !.host = h, !.prev = done[h]]]
    /\ ncalls' = [ncalls EXCEPT ![t] = @ + 1]
    /\ log' = Append(log, Rec("DEBUG", "Resolving hostname", <<h>>, <<>>))

\* resolver.lookup_ip(host): the cache is consulted first.  A live entry
\* answers the lookup; otherwise a dead entry is dropped and a query is sent.
\* The check and the later insert are separate steps of the library, each
\* atomic under the cache's lock.
CacheLookup(t) ==
    /\ call[t].pc = "called"
    /\ LET h == call[t].host
           hd == ResolverClone(t)
       IN IF cache[hd][h].state = "populated"
          THEN /\ call' = [call EXCEPT ![t].pc = "looked",
                                       ![t].lres = LookupOk(cache[hd][h].ips)]
               /\ UNCHANGED <<cache, lookups>>
          ELSE /\ call' = [call EXCEPT ![t].pc = "query", ![t].attempt = 1,
                                       ![t].elapsed = 0, ![t].nlook = @ + 1]
               /\ cache' = [cache EXCEPT ![hd][h] = Absent]
               /\ lookups' = [lookups EXCEPT ![h] = @ + 1]
    /\ UNCHANGED <<backend, ncalls, done, expired, log, run, pooled, server>>

\* The query failed with a retryable error: send it again while the attempt
\* budget (opts.attempts) lasts, else the lookup fails with the cause.  The
\* loop is the resolver library's; it is modelled from the options new() sets,
\* one name server and one query per attempt.
RetryOrFail(t, cause) ==
    LET h == call[t].host
    IN IF call[t].attempt < MaxAttempts
       THEN /\ call' = [call EXCEPT ![t].attempt = @ + 1, ![t].elapsed = 0,
                                    ![t].nlook = @ + 1]
            /\ lookups' = [lookups EXCEPT ![h] = @ + 1]
       ELSE /\ call' = [call EXCEPT ![t].pc = "looked", ![t].lres = LookupErr(cause)]
            /\ UNCHANGED lookups

\* The name server answers the query in flight with addresses: the answer is
\* cached and ends the lookup.
BackendAnswer(t) ==
    /\ call[t].pc = "query"
    /\ call[t].elapsed < LookupTimeout
    /\ backend[call[t].host].kind \in {"addrs", "flaky"}
    /\ LET h == call[t].host
           ips == backend[h].addrs
       IN /\ cache' = CacheInsert(cache, ResolverClone(t), h, ips)
          /\ call' = [call EXCEPT ![t].pc = "looked", ![t].lres = LookupOk(ips)]
    /\ UNCHANGED <<backend, ncalls, lookups, done, expired, log, run, pooled, server>>

\* The name server answers that the name does not exist: not retried.
BackendNxDomain(t) ==
    /\ call[t].pc = "query"
    /\ call[t].elapsed < LookupTimeout
    /\ backend[call[t].host].kind = "nxdomain"
    /\ call' = [call EXCEPT ![t].pc = "looked", ![t].lres = LookupErr("nxdomain")]
    /\ UNCHANGED <<backend, cache, ncalls, lookups, done, expired, log, run, pooled, server>>

\* The query fails on the network.
BackendNetError(t) ==
    /\ call[t].pc = "query"
    /\ call[t].elapsed < LookupTimeout
    /\ backend[call[t].host].kind \in {"neterr", "flaky"}
    /\ RetryOrFail(t, "network")
    /\ UNCHANGED <<backend, cache, ncalls, done, expired, log, run, pooled, server>>

\* No answer within opts.timeout.
AttemptTimeout(t) ==
    /\ call[t].pc = "query"
    /\ call[t].elapsed = LookupTimeout
    /\ RetryOrFail(t, "timeout")
    /\ UNCHANGED <<backend, cache, ncalls, done, expired, log, run, pooled, server>>

\* The rest of resolve's async block: map the lookup's result, log, return.
ResolveEnd(t) ==
    /\ call[t].pc = "looked"
    /\ LET h == call[t].host
           r == ResolveResult(call[t].lres)
       IN /\ call' = [call EXCEPT ![t].pc = "returned", ![t].ret = r]
          /\ log' = log \o ResolveLog(h, call[t].lres)
          /\ done' = IF r.ok /\ ~call[t].stale THEN [done EXCEPT ![h] = r] ELSE done

\* The record's TTL runs out: the entries for h are dead; the calls under way
\* are no longer calls made within the record's validity.
Expire(h) ==
    /\ \E hd \in DOMAIN cache : cache[hd][h].state = "populated"
    /\ cache' = [hd \in DOMAIN cache |->
                   [cache[hd] EXCEPT ![h] =
                      IF @.state = "populated" THEN [@ EXCEPT !.state = "expired"] ELSE @]]
    /\ done' = [done EXCEPT ![h] = NoRet]
    /\ call' = [t \in Tasks |->
                  IF call[t].host = h /\ call[t].pc \in {"called", "query", "looked"}
                  THEN [call[t] EXCEPT !.prev = NoRet, !.stale = TRUE]
                  ELSE call[t]]
    /\ expired' = [expired EXCEPT ![h] = TRUE]
    /\ UNCHANGED <<backend, ncalls, lookups, log, run, pooled, server>>

\* ------------------------------------------------------------------ ResolveSpec

\* run.exit while the process runs
NotExited == 0 - 1

IdleRun ==
    [pc |-> "init", i |-> 1, elapsed |-> 0, rcalls |-> 0, target |-> <<>>,
     outcomes |-> <<>>, slept |-> 0, err |-> NoErr, exit |-> NotExited]

InitState ==
    /\ cache = [hd \in {"shared"} \cup Tasks |-> [h \in Hosts |-> Absent]]
    /\ call = [t \in Tasks |-> IdleCall]
    /\ ncalls = [t \in Tasks |-> 0]
    /\ lookups = [h \in Hosts |-> 0]
    /\ done = [h \in Hosts |-> NoRet]
    /\ expired = [h \in Hosts |-> FALSE]
    /\ log = <<>>
    /\ run = IdleRun
    /\ pooled = FALSE

InitResolver ==
    /\ InitState
    /\ backend \in Backends
    /\ server = 200

\* A caller calls resolve on the shared resolver.
CallResolve(t, h) ==
    /\ call[t].pc \in {"idle", "returned"}
    /\ ncalls["c1"] + ncalls["c2"] < MaxCalls
    /\ ResolveBegin(t, h)
    /\ UNCHANGED <<backend, cache, lookups, done, expired, run, pooled, server>>

\* The caller's resolve future completes.
ReturnResolve(t) ==
    /\ ResolveEnd(t)
    /\ UNCHANGED <<backend, cache, ncalls, lookups, expired, run, pooled, server>>

\* A second passes while some query waits for a name server that is silent.
TickResolve ==
    /\ \E t \in Callers : call[t].pc = "query"
    /\ \A t \in Callers : call[t].pc = "query" =>
          /\ backend[call[t].host].kind = "hang"
          /\ call[t].elapsed < LookupTimeout
    /\ call' = [t \in Tasks |->
                  IF call[t].pc = "query" THEN [call[t] EXCEPT !.elapsed = @ + 1] ELSE call[t]]
    /\ UNCHANGED <<backend, cache, ncalls, lookups, done, expired, log, run, pooled, server>>

NextResolve ==
    \/ \E t \in Callers, h \in Hosts : CallResolve(t, h)
    \/ \E t \in Callers : CacheLookup(t)
    \/ \E t \in Callers : BackendAnswer(t)
    \/ \E t \in Callers : BackendNxDomain(t)
    \/ \E t \in Callers : BackendNetError(t)
    \/ \E t \in Callers : AttemptTimeout(t)
    \/ \E t \in Callers : ReturnResolve(t)
    \/ \E h \in Hosts : Expire(h)
    \/ TickResolve

ResolveSpec == InitResolver /\ [][NextResolve]_vars

\* The runtime polls every pending resolve future, the name server's answers
\* and failures arrive, and time passes.
FairResolveSpec ==
    /\ ResolveSpec
    /\ \A t \in Callers :
          /\ WF_vars(CacheLookup(t))
          /\ WF_vars(BackendAnswer(t))
          /\ WF_vars(BackendNxDomain(t))
          /\ WF_vars(BackendNetError(t))
          /\ WF_vars(AttemptTimeout(t))
          /\ WF_vars(ReturnResolve(t))
    /\ WF_vars(TickResolve)

\* ------------------------------------------------------------- the program

\* The status codes the HTTP server answers with.
Statuses == {200, 404, 500}
\* The port the connector puts in place of port 0: the https default.
HttpsPort == 443

\* The error a request ends with: its kind and the cause chain under it.
RunErr(kind, cause) == [kind |-> kind, msg |-> cause.msg]

\* The connector's view of resolve's addresses: the port comes from the URL.
WithPort(addrs, p) == [k \in 1..Len(addrs) |-> [addrs[k] EXCEPT !.port = p]]

\* Faulty variant: the error is dropped on the way out and main returns Ok(()).
AbortExitZero(e) == [run EXCEPT !.pc = "exited", !.err = e, !.exit = 0]
\* Faulty variant: the error is kept and the loop goes on.
AbortContinue(e) == [run EXCEPT !.pc = "sleep", !.elapsed = 0, !.err = e]
\* fetch_url(..).await? in main, and send().await? in fetch_url: the error
\* leaves both functions at once and main returns it; nothing is logged.
Abort(e) == [run EXCEPT !.pc = "exited", !.err = e, !.exit = 1]

\* Faulty variant: the timeout starts only once a lookup attempt has run out.
MayWaitLonger(elapsed) == elapsed < ClientTimeout + LookupTimeout
\* The client's overall timeout: a request in flight may wait while its
\* timer is below the limit.
MayWait(elapsed) == elapsed < ClientTimeout

\* main down to the loop: the log file, the subscriber, the resolver
\* (HickoryDnsResolver::new) and the client.
Startup ==
    /\ run.pc = "init"
    /\ run' = [run EXCEPT !.pc = "loop"]
    /\ log' = log \o <<Rec("INFO", "Starting the application", <<>>, <<>>),
                       Rec("DEBUG", "Client built", <<>>, <<>>)>>
    /\ UNCHANGED <<backend, cache, call, ncalls, lookups, done, expired, pooled, server>>

\* open(&filename)? or build()? fails: main returns the error.
StartupFails ==
    /\ run.pc = "init"
    /\ run' = Abort([kind |-> "StartupError", msg |-> <<>>])
    /\ UNCHANGED <<backend, cache, call, ncalls, lookups, done, expired, log, pooled, server>>

\* Faulty variant: the next request is started while one awaits its response.
RequestStartNoAwait ==
    /\ \/ run.pc = "loop" /\ run.i <= NumRequests /\ run' = [run EXCEPT !.pc = "send", !.elapsed = 0, !.rcalls = 0]
       \/ run.pc = "response" /\ run.i < NumRequests /\ run' = [run EXCEPT !.i = @ + 1]
    /\ log' = log \o <<Rec("INFO", "Starting request", <<>>, <<run'.i>>),
                       Rec("DEBUG", "Starting HTTP request", <<UrlHost>>, <<>>)>>
    /\ UNCHANGED <<backend, cache, call, ncalls, lookups, done, expired, pooled, server>>
\* The loop body up to send(): the two records, then the request is under way.
RequestStart ==
    /\ run.pc = "loop"
    /\ run.i <= NumRequests
    /\ run' = [run EXCEPT !.pc = "send", !.elapsed = 0, !.rcalls = 0]
    /\ log' = log \o <<Rec("INFO", "Starting request", <<>>, <<run.i>>),
                       Rec("DEBUG", "Starting HTTP request", <<UrlHost>>, <<>>)>>
    /\ UNCHANGED <<backend, cache, call, ncalls, lookups, done, expired, pooled, server>>

\* The client has an idle connection to the host: no resolution, no connect.
SendPooled ==
    /\ run.pc = "send"
    /\ pooled
    /\ run' = [run EXCEPT !.pc = "response"]
    /\ UNCHANGED <<backend, cache, call, ncalls, lookups, done, expired, log, pooled, server>>

\* The connector needs an address: it calls resolve on the client's resolver.
SendResolve ==
    /\ run.pc = "send"
    /\ ~pooled
    /\ ResolveBegin("main", UrlHost)
    /\ run' = [run EXCEPT !.pc = "resolve", !.rcalls = @ + 1]
    /\ UNCHANGED <<backend, cache, lookups, done, expired, pooled, server>>

\* resolve returns to the connector: addresses to connect to, or the error,
\* which ends the request.
Resolved ==
    /\ run.pc = "resolve"
    /\ ResolveEnd("main")
    /\ LET r == ResolveResult(call["main"].lres)
       IN run' = IF r.ok
                 THEN [run EXCEPT !.pc = "connect", !.target = WithPort(r.addrs, HttpsPort)]
                 ELSE Abort(RunErr("ResolutionError", r.err))
    /\ UNCHANGED <<backend, cache, ncalls, lookups, expired, pooled, server>>

\* The TCP and TLS handshakes with one of the addresses succeed.
ConnectOk ==
    /\ run.pc = "connect"
    /\ run.target # <<>>
    /\ run' = [run EXCEPT !.pc = "response"]
    /\ pooled' = TRUE
    /\ UNCHANGED <<backend, cache, call, ncalls, lookups, done, expired, log, server>>

\* No address to connect to, or none of them accepts.
ConnectFails ==
    /\ run.pc = "connect"
    /\ run' = Abort(RunErr("ConnectionError", NoErr))
    /\ UNCHANGED <<backend, cache, call, ncalls, lookups, done, expired, log, pooled, server>>

\* Faulty variant: a status of 400 or more is turned into an error
\* (error_for_status), which ends the run.
RespondErrorForStatus(status) ==
    /\ run.pc = "response"
    /\ status = server
    /\ IF status >= 400
       THEN /\ run' = Abort(RunErr("StatusError", NoErr))
            /\ UNCHANGED log
       ELSE /\ run' = [run EXCEPT !.pc = "sleep", !.elapsed = 0, !.outcomes = Append(@, status)]
            /\ log' = log \o <<Rec("DEBUG", "Response received", <<>>, <<>>),
                               Rec("INFO", "Total request time", <<>>, <<>>),
                               Rec("INFO", "Request completed", <<>>, <<run.i, status>>)>>
    /\ UNCHANGED <<backend, cache, call, ncalls, lookups, done, expired, pooled, server>>

\* The response arrives: fetch_url logs and returns it, main logs the status
\* and goes to sleep.
Respond(status) ==
    /\ run.pc = "response"
    /\ status = server
    /\ run' = [run EXCEPT !.pc = "sleep", !.elapsed = 0, !.outcomes = Append(@, status)]
    /\ log' = log \o <<Rec("DEBUG", "Response received", <<>>, <<>>),
                       Rec("INFO", "Total request time", <<>>, <<>>),
                       Rec("INFO", "Request completed", <<>>, <<run.i, status>>)>>
    /\ UNCHANGED <<backend, cache, call, ncalls, lookups, done, expired, pooled, server>>

\* The connection breaks while the request is sent or the response read.
TransportFails ==
    /\ run.pc = "response"
    /\ run' = Abort(RunErr("TransportError", NoErr))
    /\ pooled' = FALSE
    /\ UNCHANGED <<backend, cache, call, ncalls, lookups, done, expired, log, server>>

\* The client's timeout fires: the request's future, resolve's included, is
\* dropped and send() returns the error.
RequestTimeout ==
    /\ run.pc \in {"resolve", "connect", "response"}
    /\ ~MayWait(run.elapsed)
    /\ run' = Abort(RunErr("RequestTimeoutError", NoErr))
    /\ call' = [call EXCEPT !["main"].pc = "dropped"]
    /\ pooled' = FALSE
    /\ UNCHANGED <<backend, cache, ncalls, lookups, done, expired, log, server>>

\* Faulty variant: the next iteration starts without the delay.
SleepSkipped ==
    /\ run.pc = "sleep"
    /\ run' = [run EXCEPT !.pc = "loop", !.i = @ + 1]
    /\ UNCHANGED <<backend, cache, call, ncalls, lookups, done, expired, log, pooled, server>>

\* tokio::time::sleep(100 ms) ends: the next iteration.
SleepDone ==
    /\ run.pc = "sleep"
    /\ run' = [run EXCEPT !.pc = "loop", !.i = @ + 1, !.slept = @ + DelayMs]
    /\ UNCHANGED <<backend, cache, call, ncalls, lookups, done, expired, log, pooled, server>>

\* The loop is over: the last record, Ok(()).
Finish ==
    /\ run.pc = "loop"
    /\ run.i > NumRequests
    /\ run' = [run EXCEPT !.pc = "exited", !.exit = 0]
    /\ log' = Append(log, Rec("INFO", "All requests completed", <<>>, <<>>))
    /\ UNCHANGED <<backend, cache, call, ncalls, lookups, done, expired, pooled, server>>

\* The server closes the idle connection.
ConnClosed ==
    /\ pooled
    /\ run.pc \in {"sleep", "loop"}
    /\ pooled' = FALSE
    /\ UNCHANGED <<backend, cache, call, ncalls, lookups, done, expired, log, run, server>>

\* A second passes while the request waits: for a silent name server, for the
\* handshake or for the response.
Tick ==
    /\ \/ run.pc = "resolve" /\ call["main"].pc = "query"
                             /\ backend[UrlHost].kind = "hang"
                             /\ call["main"].elapsed < LookupTimeout
       \/ run.pc \in {"connect", "response"}
    /\ MayWait(run.elapsed)
    /\ run' = [run EXCEPT !.elapsed = @ + 1]
    /\ call' = [call EXCEPT !["main"].elapsed =
                  IF call["main"].pc = "query" /\ run.pc = "resolve" THEN @ + 1 ELSE @]
    /\ UNCHANGED <<backend, cache, ncalls, lookups, done, expired, log, pooled, server>>

Init ==
    /\ InitState
    /\ backend \in {b \in Backends : b["example.test"].kind = "addrs"}
    /\ server \in Statuses

Next ==
    \/ Startup
    \/ StartupFails
    \/ RequestStart
    \/ SendPooled
    \/ SendResolve
    \/ run.pc = "resolve" /\ CacheLookup("main")
    \/ run.pc = "resolve" /\ BackendAnswer("main")
    \/ run.pc = "resolve" /\ BackendNxDomain("main")
    \/ run.pc = "resolve" /\ BackendNetError("main")
    \/ run.pc = "resolve" /\ AttemptTimeout("main")
    \/ Resolved
    \/ ConnectOk
    \/ ConnectFails
    \/ \E st \in Statuses : Respond(st)
    \/ TransportFails
    \/ RequestTimeout
    \/ SleepDone
    \/ Finish
    \/ ConnClosed
    \/ Expire(UrlHost)
    \/ Tick

Spec == Init /\ [][Next]_vars

\* ------------------------------------------------------------------ claims

Returned(t) == call[t].pc = "returned"

\* Positions of the log records with message m about request j.
At(m, j) == {p \in 1..Len(log) : log[p].msg = m /\ log[p].n[1] = j}
Starts(j) == At("Starting request", j)
Completes(j) == At("Request completed", j)
Started == {j \in 1..NumRequests : Starts(j) # {}}
Completed == {j \in 1..NumRequests : Completes(j) # {}}
Failed(e) == e.kind \in {"ResolutionError", "ConnectionError", "RequestTimeoutError",
                         "TransportError"}

\* C1: with a deterministic name server, a resolve call made while the record
\* an earlier call obtained is still valid sends no query and returns the
\* addresses the earlier call returned, and a successful call sends at most
\* one query; every call works on a clone of the resolver handle.
C1_CacheHit ==
    \A t \in Callers :
        (Returned(t) /\ Deterministic(backend[call[t].host])) =>
            /\ call[t].ret.ok => call[t].nlook <= 1
            /\ call[t].prev.set =>
                  /\ call[t].nlook = 0
                  /\ call[t].ret = call[t].prev

C1_Witness ==
    \E t \in Callers :
        /\ Returned(t)
        /\ Deterministic(backend[call[t].host])
        /\ call[t].prev.set
        /\ call[t].ret.addrs # <<>>
        /\ lookups[call[t].host] = 1
        /\ ncalls["c1"] + ncalls["c2"] >= 2

\* C2: a request that fails ends the run with its error: the process has
\* exited with that error, the failed request is the last one started, and
\* every request before it completed.  When the name server fails every
\* query, that is the first request, and the error is a ResolutionError.
C2_FirstFailureAborts ==
    /\ Failed(run.err) =>
          /\ run.pc = "exited"
          /\ run.exit # 0
          /\ Started = 1..run.i
          /\ Completed = 1..(run.i - 1)
          /\ Len(run.outcomes) = run.i - 1
    /\ (run.pc = "exited" /\ Started # {}
        /\ backend[UrlHost].kind \in {"nxdomain", "neterr"}) =>
          /\ run.err.kind = "ResolutionError"
          /\ Started = {1}
          /\ run.outcomes = <<>>

C2_Witness ==
    /\ run.pc = "exited"
    /\ run.err.kind = "ResolutionError"
    /\ backend[UrlHost].kind = "neterr"
    /\ Started = {1}
    /\ run.i = 1
    /\ lookups[UrlHost] >= 1

C7_AddressesInOrderPortZero ==
    \A t \in Callers :
        (Returned(t) /\ call[t].ret.ok) =>
            /\ call[t].lres.ips = backend[call[t].host].addrs
            /\ Len(call[t].ret.addrs) = Len(call[t].lres.ips)
            /\ \A k \in 1..Len(call[t].lres.ips) :
                  /\ call[t].ret.addrs[k].ip = call[t].lres.ips[k]
                  /\ call[t].ret.addrs[k].port = 0

C7_Witness ==
    \E t \in Callers :
        /\ Returned(t)
        /\ call[t].ret.ok
        /\ call[t].lres.ips = <<A2, A1>>
        /\ Len(call[t].ret.addrs) = 2

\* Calls of two callers for one host that both sent a query: the second was
\* made before the first had its answer.
InCall(t) == call[t].pc \in {"called", "query", "looked"}

\* A cache entry always holds the whole answer of the name server (never a
\* part of it), and any two callers that have returned from a call for one
\* host, served by a deterministic name server, hold the same result.
C5_Safe ==
    /\ \A h \in Hosts :
          cache["shared"][h].state # "absent" => cache["shared"][h].ips = backend[h].addrs
    /\ \A t, u \in Callers :
          (Returned(t) /\ Returned(u) /\ call[t].host = call[u].host
           /\ Deterministic(backend[call[t].host])) => call[t].ret = call[u].ret

LogOrdered ==
    /\ \A j \in 1..NumRequests :
          /\ Cardinality(Starts(j)) <= 1
          /\ Cardinality(Completes(j)) <= 1
          /\ \A q \in Completes(j) : \E p \in Starts(j) : p < q
    /\ \A j \in 2..NumRequests :
          \A q \in Starts(j) : \E p \in Completes(j - 1) : p < q

\* C6: a run that ends with every request answered has exactly NumRequests
\* outcomes and its log records in request order; when the name server
\* resolves the host and the record did not expire during the run, the name
\* server received exactly one query over the whole run, and no request fails
\* on resolution.
C6_EndToEnd ==
    /\ (run.pc = "exited" /\ run.exit = 0) =>
          /\ Len(run.outcomes) = NumRequests
          /\ \A k \in 1..NumRequests : run.outcomes[k] = server
          /\ Completed = 1..NumRequests
          /\ LogOrdered
          /\ (backend[UrlHost].kind = "addrs" /\ ~expired[UrlHost]) => lookups[UrlHost] = 1
    /\ (backend[UrlHost].kind = "addrs" /\ ~expired[UrlHost]) =>
          /\ lookups[UrlHost] <= 1
          /\ run.err.kind # "ResolutionError"

C6_Witness ==
    /\ run.pc = "exited" /\ run.exit = 0
    /\ backend[UrlHost] = [kind |-> "addrs", addrs |-> <<A1>>]
    /\ ~expired[UrlHost]
    /\ ncalls["main"] = NumRequests
    /\ lookups[UrlHost] = 1
    /\ Len(run.outcomes) = NumRequests

\* C8: when the lookup fails, resolve returns an error of kind NotFound whose
\* message holds the lookup's cause; the request ends the run with a
\* ResolutionError over that error, and resolve was called once for it.
C8_ResolutionErrorSurfaced ==
    /\ run.rcalls <= 1
    /\ (Returned("main") /\ ~call["main"].lres.ok) =>
          /\ ~call["main"].ret.ok
          /\ call["main"].ret.err.kind = "NotFound"
          /\ call["main"].ret.err.msg = <<"DNS resolution failed: ", call["main"].lres.cause>>
          /\ call["main"].lres.cause \in {"timeout", "network", "nxdomain"}
          /\ run.pc = "exited"
          /\ run.err = [kind |-> "ResolutionError", msg |-> call["main"].ret.err.msg]
          /\ run.rcalls = 1
    /\ run.err.kind = "ResolutionError" => (Returned("main") /\ ~call["main"].lres.ok)

C8_Witness ==
    /\ run.pc = "exited"
    /\ run.err = [kind |-> "ResolutionError", msg |-> <<"DNS resolution failed: ", "timeout">>]
    /\ run.rcalls = 1
    /\ Returned("main")

\* C9: a request is never in flight longer than the client timeout, which is
\* larger than the lookup timeout; when the timeout is reached the request
\* fails with a RequestTimeoutError.
C9_ClientTimeoutBounds ==
    /\ LookupTimeout < ClientTimeout
    /\ run.elapsed <= ClientTimeout
    /\ run.pc = "resolve" => call["main"].elapsed <= run.elapsed
    /\ run.err.kind = "RequestTimeoutError" => run.elapsed = ClientTimeout

C9_Witness ==
    /\ run.pc = "exited"
    /\ run.err.kind = "RequestTimeoutError"
    /\ run.elapsed = ClientTimeout
    /\ run.i = 2

\* The requests in flight: started, and neither completed nor failed.
InFlight == {j \in Started : j \notin Completed /\ ~(Failed(run.err) /\ j = run.i)}

\* C10: at most one request is in flight, request j + 1 starts only after
\* request j has completed, and the log's records are in request order.
C10_Sequential ==
    /\ Cardinality(InFlight) <= 1
    /\ LogOrdered
    /\ Started \in {1..k : k \in 0..NumRequests}
    /\ Completed \in {1..k : k \in 0..NumRequests}
    /\ run.pc \in {"send", "resolve", "connect", "response"} => InFlight = {run.i}

C10_Witness ==
    /\ run.pc = "response"
    /\ run.i = NumRequests
    /\ InFlight = {NumRequests}
    /\ Completed = 1..(NumRequests - 1)

\* C11: the process exits with code 0 exactly when every request of the run
\* completed; a failed request or resolution makes it exit with a nonzero
\* code and the error main returned.
C11_ExitCode ==
    /\ run.pc # "exited" => run.exit = NotExited
    /\ run.pc = "exited" =>
          /\ run.exit \in {0, 1}
          /\ run.exit = 0 <=> (Completed = 1..NumRequests /\ Len(run.outcomes) = NumRequests)
          /\ run.exit = 0 <=> run.err = NoErr
    /\ Failed(run.err) => (run.pc = "exited" /\ run.exit # 0)

C11_Witness ==
    /\ run.pc = "exited"
    /\ run.exit = 1
    /\ run.err.kind = "ResolutionError"
    /\ Len(run.outcomes) = NumRequests - 1

\* The log holds a record of the error e: one that names its kind, or, for
\* an error with a cause under it, one that holds the cause.
ErrorLogged(e) ==
    \E p \in 1..Len(log) :
        \E k \in 1..Len(log[p].s) :
            \/ log[p].s[k] = e.kind
            \/ e.msg # <<>> /\ log[p].s[k] = e.msg[Len(e.msg)]

\* C12: when the run has ended on a request's error, the log file holds that
\* error and its cause chain.
C12_AbortingErrorLogged ==
    (run.pc = "exited" /\ Failed(run.err)) => ErrorLogged(run.err)

\* C16: the 100 ms delay has been taken once after every completed request
\* that the loop has left behind, so every request after the first starts with
\* one delay per request before it; main sleeps only right after a completed
\* request, never after a failed one, and no request is started twice.
C16_DelayIsPacing ==
    /\ run.slept = DelayMs * (run.i - 1)
    /\ \A j \in Started : j <= run.i /\ Cardinality(Starts(j)) = 1
    /\ run.pc = "sleep" => (run.err = NoErr /\ run.i \in Completed)
    /\ Failed(run.err) =>
          /\ run.pc = "exited"
          /\ run.i \notin Completed
          /\ run.slept = DelayMs * Cardinality(Completed)

C16_Witness ==
    /\ run.pc = "exited"
    /\ Failed(run.err)
    /\ run.i = 3
    /\ run.slept = 2 * DelayMs
    /\ Completed = {1, 2}

\* The status the log holds for request j.
LoggedStatus(j) == {log[p].n[2] : p \in Completes(j)}

\* C17: a request that got a response is completed whatever the status: the
\* status is in the log and in the outcomes, no error is set by it, main goes
\* on to the delay and the next request, and once a request has been started
\* the run ends early only on one of the errors of a request that got no
\* response (resolution, connection, transport, timeout).
C17_StatusDoesNotAbort ==
    /\ \A j \in Completed : LoggedStatus(j) = {server} /\ run.outcomes[j] = server
    /\ Len(run.outcomes) = Cardinality(Completed)
    /\ run.i \in Completed => (run.pc = "sleep" /\ run.err = NoErr)
    /\ (Started # {} /\ run.err # NoErr) => Failed(run.err)
    /\ (Started # {} /\ run.pc = "exited" /\ run.exit # 0) => Failed(run.err)
    /\ Failed(run.err) => (run.i \notin Completed /\ Len(run.outcomes) = run.i - 1)
    /\ Started \subseteq Completed \cup {run.i}

C17_Witness ==
    /\ server = 500
    /\ run.pc = "send"
    /\ run.i = 2
    /\ run.outcomes = <<500>>
    /\ LoggedStatus(1) = {500}
    /\ run.err = NoErr

====
